---------------------------- MODULE Spec2Model ----------------------------
(*
  A model of src/windows.rs, the Windows backend of the `trash` crate:
  list(), delete_all_canonicalized(), purge_all(), restore_all() and the
  helpers they use, as calls into the shell (COM) platform whose every
  status is chosen by the environment.
*)
EXTENDS Integers, Sequences, FiniteSets

VARIABLES
    pc,              \* position of the running call (the next platform call)
    op,              \* the public function that is executing ("none" when idle)
    co_initialized,  \* CO_INITIALIZER of the calling thread has been created
    log,             \* the platform calls made by the running call: [f, hr]
    live,            \* outstanding platform resources, per kind
    misuse,          \* a release of, or a use of, a resource that is not live
    result,          \* how the call ended: [kind, err, at]
    trash,           \* the recycle bin: a sequence of item kinds
    cursor,          \* how many items the IEnumIDList has yielded
    item,            \* list(): position in the bin of the item in hand, 0 = none
    cb,              \* bind_to_csidl: (*pidl).mkid.cb of the resolved folder
    shgdn,           \* get_display_name: its argument `flags`, "none" outside it
    id,              \* list(): loop local `id`
    name,            \* list(): loop local `name`
    orig_loc,        \* list(): loop local `orig_loc`
    windows_ticks,   \* variant_time_to_unix_time: `windows_ticks`
    date_deleted,    \* list(): loop local `date_deleted`
    item_vec,        \* list(): `item_vec`
    full_paths_len,  \* delete_all_canonicalized: full_paths.len()
    path_idx,        \* delete_all_canonicalized: paths taken from the iterator
    full_path,       \* delete_all_canonicalized: loop variable `full_path`
    parsing_name,    \* the string SHCreateItemFromParsingName read
    flags,           \* the flags last given to SetOperationFlags, -1 = never
    targets,         \* delete targets added to the IFileOperation
    items,           \* purge_all / restore_all: the argument `items`
    thread_pc,       \* threads: where each thread is in its call
    CO_INITIALIZER,  \* threads: the thread-local of each thread exists
    com_calls,       \* threads: CoInitializeEx / CoUninitialize calls of each thread
    thread_calls,    \* threads: calls of list / delete_all_canonicalized made
    uninitialized_call \* threads: a platform call made on a thread without COM

vars == <<pc, op, co_initialized, log, live, misuse, result, trash, cursor,
          item, cb, shgdn, id, name, orig_loc, windows_ticks, date_deleted,
          item_vec, full_paths_len, path_idx, full_path, parsing_name,
          flags, targets, items, thread_pc, CO_INITIALIZER, com_calls,
          thread_calls, uninitialized_call>>

\* the state of the threads of the process, see the end of the module
threads == <<thread_pc, CO_INITIALIZER, com_calls, thread_calls,
             uninitialized_call>>

---------------------------------------------------------------------------
(* Bounds of the model. *)

MaxItems == 2        \* items in the recycle bin
MaxPaths == 2        \* paths in full_paths
MaxPathLen == 5      \* code units in one path
TickSpread == 4      \* tick samples taken around every base value
NumThreads == 2      \* threads calling into the crate
MaxCalls == 2        \* calls one thread makes

Threads == 1..NumThreads

\* no thread has called into the crate
ThreadsInit ==
    /\ thread_pc = [t \in Threads |-> [op |-> "none", at |-> "idle"]]
    /\ CO_INITIALIZER = [t \in Threads |-> FALSE]
    /\ com_calls = [t \in Threads |-> <<>>]
    /\ thread_calls = [t \in Threads |-> 0]
    /\ uninitialized_call = [t \in Threads |-> FALSE]

---------------------------------------------------------------------------
(* 64-bit arithmetic.  TLC's integers are 32 bits wide, so a u64 or an i64
   is held as NumLimbs base-100 digits, most significant first; an i64 is
   a sign and a magnitude. *)

LimbBase == 100
NumLimbs == 10

Limbs == 1..NumLimbs

RECURSIVE FromNatAt(_, _)
FromNatAt(n, i) ==
    IF i = 0 THEN <<>> ELSE Append(FromNatAt(n \div LimbBase, i - 1), n % LimbBase)

\* a natural number below 2^31 as limbs
FromNat(n) == FromNatAt(n, NumLimbs)

ZeroMag == FromNat(0)

\* -1, 0, 1 as a < b, a = b, a > b
CmpMag(a, b) ==
    LET d == {i \in Limbs : a[i] # b[i]} IN
    IF d = {} THEN 0
    ELSE LET i == CHOOSE j \in d : \A k \in d : j <= k IN
         IF a[i] < b[i] THEN -1 ELSE 1

RECURSIVE AddAt(_, _, _, _)
AddAt(a, b, i, carry) ==
    IF i = 0 THEN <<>>
    ELSE LET s == a[i] + b[i] + carry IN
         Append(AddAt(a, b, i - 1, s \div LimbBase), s % LimbBase)

AddMag(a, b) == AddAt(a, b, NumLimbs, 0)

RECURSIVE SubAt(_, _, _, _)
SubAt(a, b, i, borrow) ==
    IF i = 0 THEN <<>>
    ELSE LET s == a[i] - b[i] - borrow IN
         IF s < 0 THEN Append(SubAt(a, b, i - 1, 1), s + LimbBase)
         ELSE Append(SubAt(a, b, i - 1, 0), s)

\* a - b for a >= b
SubMag(a, b) == SubAt(a, b, NumLimbs, 0)

RECURSIVE DivAt(_, _, _, _)
DivAt(a, d, i, rem) ==
    IF i > NumLimbs THEN <<>>
    ELSE LET cur == rem * LimbBase + a[i] IN
         <<cur \div d>> \o DivAt(a, d, i + 1, cur % d)

\* floor(a / d) for 0 < d <= 10^7: schoolbook short division
DivMag(a, d) == DivAt(a, d, 1, 0)

RECURSIVE MulAt(_, _, _, _)
MulAt(a, m, i, carry) ==
    IF i = 0 THEN <<>>
    ELSE LET s == a[i] * m + carry IN
         Append(MulAt(a, m, i - 1, s \div LimbBase), s % LimbBase)

\* a * m for 0 <= m <= 10^7
MulMag(a, m) == MulAt(a, m, NumLimbs, 0)

\* signed values
Signed(neg, mag) == [neg |-> neg /\ mag # ZeroMag, mag |-> mag]
Pos(mag) == Signed(FALSE, mag)
SNeg(x) == Signed(~x.neg, x.mag)
SAdd(x, y) ==
    IF x.neg = y.neg THEN Signed(x.neg, AddMag(x.mag, y.mag))
    ELSE IF CmpMag(x.mag, y.mag) >= 0 THEN Signed(x.neg, SubMag(x.mag, y.mag))
    ELSE Signed(y.neg, SubMag(y.mag, x.mag))
SSub(x, y) == SAdd(x, SNeg(y))
\* x < y
SLess(x, y) == SSub(x, y).neg

\* 2^63 = 9223372036854775808 and 2^64 = 18446744073709551616
Two63 == <<9, 22, 33, 72, 3, 68, 54, 77, 58, 8>>
Two64 == <<18, 44, 67, 44, 7, 37, 9, 55, 16, 16>>
U64Max == SubMag(Two64, FromNat(1))

\* the value of an integer expression of type i64 whose exact value is x
\* (two's complement wrap-around, as `as i64` and a release build's `-`)
WrapI64(x) ==
    IF ~x.neg /\ CmpMag(x.mag, Two63) >= 0 THEN SSub(x, Pos(Two64))
    ELSE IF x.neg /\ CmpMag(x.mag, Two63) > 0 THEN SAdd(x, Pos(Two64))
    ELSE x

---------------------------------------------------------------------------
(* windows_ticks_to_unix_seconds *)

WINDOWS_TICK == 10000000
\* 11644473600
SEC_TO_UNIX_EPOCH == <<0, 0, 0, 0, 1, 16, 44, 47, 36, 0>>

\* the cast made before the division: windows_ticks as i64 / WINDOWS_TICK
windows_ticks_to_unix_seconds_cast_first(ticks) ==
    LET cast == WrapI64(Pos(ticks))
        quotient == Signed(cast.neg, DivMag(cast.mag, WINDOWS_TICK))
    IN  WrapI64(SSub(quotient, Pos(SEC_TO_UNIX_EPOCH)))

\* (windows_ticks / WINDOWS_TICK) as i64 - SEC_TO_UNIX_EPOCH
windows_ticks_to_unix_seconds(ticks) ==
    LET quotient == WrapI64(Pos(DivMag(ticks, WINDOWS_TICK)))
    IN  WrapI64(SSub(quotient, Pos(SEC_TO_UNIX_EPOCH)))

---------------------------------------------------------------------------
(* The platform: statuses, strings, the items of the recycle bin. *)

S_OK == 0
S_FALSE == 1
E_FAIL == -2147467259

\* HRESULT::is_err
is_err(hr) == hr < 0

\* what a call documented to return S_OK or an error returns
Statuses == {S_OK, E_FAIL}
\* IShellFolder::EnumObjects and IEnumIDList::Next also return S_FALSE
EnumStatuses == {S_OK, S_FALSE, E_FAIL}

\* UTF-16 code units used in names and paths: \ ? a
Backslash == 92
QuestionMark == 63
LetterA == 97

\* the kinds of item a recycle bin holds in the model
ItemKinds == {1, 2, 3}

\* folder-relative display name of an item of kind k, as UTF-16 code units:
\* "doc", a lone high surrogate, a surrogate pair
DisplayName(k) ==
    CASE k = 1 -> <<100, 111, 99>>
      [] k = 2 -> <<55296>>
      [] OTHER -> <<55357, 56832>>

\* parse-form display name of the item at position i of the bin: "$R" i
ParsingName(i) == <<36, 82, 48 + i>>

\* original location of an item of kind k: "C:\" "a" ...
OriginalLocation(k) == <<67, 58, Backslash>> \o [j \in 1..k |-> LetterA]

\* 116444736000000000: the FILETIME of 1970-01-01T00:00:00Z
EpochTicks == <<0, 11, 64, 44, 73, 60, 0, 0, 0, 0>>

\* FILETIME of the deletion date of an item of kind k:
\* 1970-01-01T00:00:01Z, 1969-12-31T23:59:59.9999999Z, the last FILETIME
FileTime(k) ==
    CASE k = 1 -> AddMag(EpochTicks, FromNat(WINDOWS_TICK))
      [] k = 2 -> SubMag(EpochTicks, FromNat(1))
      [] OTHER -> U64Max

\* the null-terminated wide string the platform writes for the units s
Wstr(s) == s \o <<0>>

\* wstr_to_os_string: the code units before the first zero
wstr_to_os_string(wstr) ==
    LET zeros == {i \in 1..Len(wstr) : wstr[i] = 0}
        len == (CHOOSE i \in zeros : \A j \in zeros : i <= j) - 1
    IN  SubSeq(wstr, 1, len)

IsHighSurrogate(u) == u >= 55296 /\ u <= 56319
IsLowSurrogate(u) == u >= 56320 /\ u <= 57343

\* OsString::into_string: the Unicode scalar values of a well-formed UTF-16
\* sequence; ok = FALSE when a surrogate is unpaired
RECURSIVE into_string(_)
into_string(os) ==
    IF os = <<>> THEN [ok |-> TRUE, chars |-> <<>>]
    ELSE IF IsHighSurrogate(os[1]) THEN
        IF Len(os) >= 2 /\ IsLowSurrogate(os[2]) THEN
            LET rest == into_string(SubSeq(os, 3, Len(os)))
                c == 65536 + (os[1] - 55296) * 1024 + (os[2] - 56320)
            IN  [ok |-> rest.ok, chars |-> <<c>> \o rest.chars]
        ELSE [ok |-> FALSE, chars |-> <<>>]
    ELSE IF IsLowSurrogate(os[1]) THEN [ok |-> FALSE, chars |-> <<>>]
    ELSE LET rest == into_string(Tail(os))
         IN  [ok |-> rest.ok, chars |-> <<os[1]>> \o rest.chars]

---------------------------------------------------------------------------
(* Platform resources.  live[k] counts the resources of kind k the running
   call holds: "pidl" the special-folder ITEMIDLIST, "desktop" references to
   the desktop IShellFolder, "recycle_bin" references to the bound folder,
   "peidl" the IEnumIDList, "item" the ITEMIDLIST Next yielded, "sr" the
   string of the STRRET GetDisplayNameOf filled, "name" the string
   StrRetToStrW allocated, "vt" the VARIANT GetDetailsEx filled, "pfo" the
   IFileOperation, "shi" the IShellItem. *)

Kinds == {"pidl", "desktop", "recycle_bin", "peidl", "item", "sr", "name",
          "vt", "pfo", "shi"}

NoneLive == [k \in Kinds |-> 0]

\* an out-parameter filled, AddRef, Clone
Acquire(l, k) == [l EXCEPT ![k] = @ + 1]
\* CoTaskMemFree, VariantClear, Drop of a COM interface (Release)
Release(l, k) == [l EXCEPT ![k] = @ - 1]

NoResult == [kind |-> "none", err |-> "none", at |-> "none", original |-> <<>>]
Ok == [kind |-> "Ok", err |-> "none", at |-> "none", original |-> <<>>]
\* Error::Unknown, as return_err_on_fail! builds it for the call f
Unknown(f) == [kind |-> "Err", err |-> "Unknown", at |-> f, original |-> <<>>]

\* Error::ConvertOsString that lost the name
ConvertOsString_empty(original) ==
    [kind |-> "Err", err |-> "ConvertOsString", at |-> "into_string",
     original |-> <<>>]

\* Error::ConvertOsString { original }
ConvertOsString(original) ==
    [kind |-> "Err", err |-> "ConvertOsString", at |-> "into_string",
     original |-> original]

\* a panic unwinding out of the call
Panic(f) == [kind |-> "Panic", err |-> "none", at |-> f, original |-> <<>>]

NoTime == Pos(ZeroMag)

\* every recycle bin of at most MaxItems items
Bins == UNION {[1..n -> ItemKinds] : n \in 0..MaxItems}

\* the variables of the call that has not started
Locals ==
    /\ log = <<>>
    /\ live = NoneLive
    /\ misuse = FALSE
    /\ result = NoResult
    /\ cursor = 0
    /\ item = 0
    /\ cb = 0
    /\ shgdn = "none"
    /\ id = <<>>
    /\ name = <<>>
    /\ orig_loc = <<>>
    /\ windows_ticks = ZeroMag
    /\ date_deleted = NoTime
    /\ item_vec = <<>>
    /\ full_paths_len = 0
    /\ path_idx = 0
    /\ full_path = <<>>
    /\ parsing_name = <<>>
    /\ flags = -1
    /\ targets = 0
    /\ items = <<>>

Init ==
    /\ pc = "idle"
    /\ op = "none"
    /\ co_initialized = FALSE
    /\ trash \in Bins
    /\ Locals
    /\ ThreadsInit

locals == <<cursor, item, cb, shgdn, id, name, orig_loc, windows_ticks, date_deleted,
            item_vec, full_paths_len, path_idx, full_path, parsing_name,
            flags, targets, items>>

\* the call f returned hr
Called(f, hr) == log' = Append(log, [f |-> f, hr |-> hr])

\* the running call returns r holding the resources l
Return(r, l) ==
    /\ pc' = "done"
    /\ result' = r
    /\ live' = l

---------------------------------------------------------------------------
(* The public functions are called. *)

call_list ==
    /\ pc = "idle"
    /\ op' = "list"
    /\ pc' = "ensure_com_initialized"
    /\ UNCHANGED <<co_initialized, log, live, misuse, result, trash, locals>>
    /\ UNCHANGED threads

call_delete_all_canonicalized ==
    /\ pc = "idle"
    /\ \E n \in 0..MaxPaths :
        /\ Len(trash) + n <= MaxItems
        /\ full_paths_len' = n
    /\ op' = "delete_all_canonicalized"
    /\ pc' = "ensure_com_initialized"
    /\ UNCHANGED <<co_initialized, log, live, misuse, result, trash, cursor,
                   item, cb, shgdn, id, name, orig_loc, windows_ticks,
                   date_deleted, item_vec, path_idx, full_path, parsing_name, flags,
                   targets, items>>
    /\ UNCHANGED threads

---------------------------------------------------------------------------
(* ensure_com_initialized: the first use of CO_INITIALIZER on the thread runs
   CoInitializer::new, which panics when CoInitializeEx fails. *)

ensure_com_initialized ==
    /\ pc = "ensure_com_initialized"
    /\ IF co_initialized
       THEN /\ pc' = "SHGetSpecialFolderLocation"
            /\ UNCHANGED <<co_initialized, log, result>>
       ELSE \E hr \in Statuses :
            /\ Called("CoInitializeEx", hr)
            /\ IF is_err(hr)
               THEN /\ pc' = "done"
                    /\ result' = Panic("CoInitializeEx")
                    /\ UNCHANGED co_initialized
               ELSE /\ pc' = "SHGetSpecialFolderLocation"
                    /\ co_initialized' = TRUE
                    /\ UNCHANGED result
    /\ UNCHANGED <<op, live, misuse, trash, locals>>
    /\ UNCHANGED threads

---------------------------------------------------------------------------
(* bind_to_csidl(CSIDL_BITBUCKET), called by list and
   delete_all_canonicalized.  Its `?` and return_err_on_fail! exits return
   from the caller too, which holds no resource yet. *)

\* pidl is never freed
bind_to_csidl_defer_missing(l) == l

\* defer! {{ CoTaskMemFree(pidl as _); }}
bind_to_csidl_defer(l) == Release(l, "pidl")

\* the payloads (*pidl).mkid.cb the platform resolves a folder to: the
\* desktop itself (0) or a child of it
Payloads == {0, 20}

bind_SHGetSpecialFolderLocation ==
    /\ pc = "SHGetSpecialFolderLocation"
    /\ \E hr \in Statuses :
        /\ Called("SHGetSpecialFolderLocation", hr)
        /\ IF is_err(hr)
           THEN /\ Return(Unknown("SHGetSpecialFolderLocation"), live)
                /\ UNCHANGED cb
           ELSE /\ \E payload \in Payloads : cb' = payload
                /\ live' = Acquire(live, "pidl")
                /\ pc' = "SHGetDesktopFolder"
                /\ UNCHANGED result
    /\ UNCHANGED <<op, co_initialized, misuse, trash, cursor, item, shgdn, id,
                   name, orig_loc, windows_ticks, date_deleted, item_vec,
                   full_paths_len, path_idx, full_path, parsing_name, flags,
                   targets, items>>
    /\ UNCHANGED threads

\* binding whatever the identifier holds
bind_target_always_bound(payload) == "BindToObject"

\* `if (*pidl).mkid.cb != 0`: bind to the folder of the identifier, or
\* take the desktop folder itself
bind_target(payload) == IF payload # 0 THEN "BindToObject" ELSE "cast"

\* SHGetDesktopFolder: fails, succeeds with no folder, or succeeds
bind_SHGetDesktopFolder ==
    /\ pc = "SHGetDesktopFolder"
    /\ \E hr \in Statuses, some \in BOOLEAN :
        /\ is_err(hr) => ~some
        /\ Called("SHGetDesktopFolder", hr)
        /\ IF is_err(hr)
           THEN Return(Unknown("SHGetDesktopFolder"), bind_to_csidl_defer(live))
           ELSE IF ~some
           THEN Return(Unknown("SHGetDesktopFolder set its output to None"),
                       bind_to_csidl_defer(live))
           ELSE /\ live' = Acquire(live, "desktop")
                /\ pc' = bind_target(cb)
                /\ UNCHANGED result
    /\ UNCHANGED <<op, co_initialized, misuse, trash, locals>>
    /\ UNCHANGED threads

\* where the caller of bind_to_csidl goes on
AfterBind == IF op = "list" THEN "EnumObjects" ELSE "CoCreateInstance"

\* (*pidl).mkid.cb != 0: desktop.BindToObject(pidl, ...)
bind_BindToObject ==
    /\ pc = "BindToObject"
    /\ \E hr \in Statuses :
        /\ Called("BindToObject", hr)
        /\ misuse' = (misuse \/ live["pidl"] < 1 \/ live["desktop"] < 1)
        /\ LET l == bind_to_csidl_defer(Release(live, "desktop")) IN
           IF is_err(hr)
           THEN Return(Unknown("BindToObject"), l)
           ELSE /\ live' = Acquire(l, "recycle_bin")
                /\ pc' = AfterBind
                /\ UNCHANGED result
    /\ UNCHANGED <<op, co_initialized, trash, locals>>
    /\ UNCHANGED threads

\* (*pidl).mkid.cb == 0: desktop.cast(), a QueryInterface on the desktop
bind_cast ==
    /\ pc = "cast"
    /\ \E hr \in Statuses :
        /\ Called("QueryInterface", hr)
        /\ misuse' = (misuse \/ live["desktop"] < 1)
        /\ LET l == bind_to_csidl_defer(Release(live, "desktop")) IN
           IF is_err(hr)
           THEN Return(Unknown("QueryInterface"), l)
           ELSE /\ live' = Acquire(l, "recycle_bin")
                /\ pc' = AfterBind
                /\ UNCHANGED result
    /\ UNCHANGED <<op, co_initialized, trash, locals>>
    /\ UNCHANGED threads

---------------------------------------------------------------------------
(* list *)

\* line 161: only S_OK is accepted from EnumObjects
enum_objects_accepted(hr) == hr = S_OK

\* a loop that goes on at every status that is no failure
next_continues_any_success(hr) == ~is_err(hr)

\* line 174: the loop goes on while Next returns S_OK
next_continues(hr) == hr = S_OK

\* defer! {{ CoTaskMemFree(item as *mut c_void); }}
list_item_defer(l) == Release(l, "item")

\* list() returns before the enumeration: `recycle_bin` is dropped
drop_recycle_bin(l) == Release(l, "recycle_bin")

\* list() returns after the enumeration: `peidl`, `recycle_bin` are dropped
drop_list_scope(l) == drop_recycle_bin(Release(l, "peidl"))

\* the item is freed at the end of an iteration only, not on an early return
drop_loop_scope_leak(l) == drop_list_scope(l)

\* list() returns from inside the loop body
drop_loop_scope(l) == drop_list_scope(list_item_defer(l))

\* only return_err_on_fail! looks at the status, the output is taken as set
enum_objects_outcome_is_ok(hr, some) ==
    IF is_err(hr) THEN "failed" ELSE "proceed"

\* lines 151-171: what list() does with the status of EnumObjects and the
\* Option it left in peidl
enum_objects_outcome(hr, some) ==
    IF is_err(hr) THEN "failed"
    ELSE IF ~enum_objects_accepted(hr) THEN "not S_OK"
    ELSE IF ~some THEN "None"
    ELSE "proceed"

\* EnumObjects hands out an enumerator with S_OK only (with S_FALSE the
\* output is documented to be NULL), and may leave it None even so
list_EnumObjects ==
    /\ pc = "EnumObjects"
    /\ \E hr \in EnumStatuses, some \in BOOLEAN :
        /\ hr # S_OK => ~some
        /\ Called("EnumObjects", hr)
        /\ misuse' = (misuse \/ live["recycle_bin"] < 1)
        /\ LET outcome == enum_objects_outcome(hr, some) IN
           IF outcome = "failed"
           THEN Return(Unknown("EnumObjects"), drop_recycle_bin(live))
           ELSE IF outcome = "not S_OK"
           THEN Return(Unknown("EnumObjects returned another HRESULT than 0x0"),
                       drop_recycle_bin(live))
           ELSE IF outcome = "None"
           THEN Return(Unknown("EnumObjects set its output to None"),
                       drop_recycle_bin(live))
           ELSE /\ live' = IF some THEN Acquire(live, "peidl") ELSE live
                /\ pc' = "Next"
                /\ UNCHANGED result
    /\ UNCHANGED <<op, co_initialized, trash, locals>>
    /\ UNCHANGED threads

\* peidl.Next(1, ..): S_OK with the next item, S_FALSE at the end of the
\* bin, or a failure at any point
list_Next ==
    /\ pc = "Next"
    /\ \E hr \in EnumStatuses :
        /\ hr = S_OK => cursor < Len(trash)
        /\ hr = S_FALSE => cursor = Len(trash)
        /\ Called("Next", hr)
        /\ misuse' = (misuse \/ live["peidl"] < 1)
        /\ IF next_continues(hr)
           THEN /\ cursor' = cursor + 1
                /\ item' = cursor + 1
                /\ live' = Acquire(live, "item")
                /\ shgdn' = "SHGDN_FORPARSING"
                /\ pc' = "GetDisplayNameOf"
                /\ UNCHANGED result
           ELSE /\ Return(Ok, drop_list_scope(live))
                /\ UNCHANGED <<cursor, item, shgdn>>
    /\ UNCHANGED <<op, co_initialized, trash, cb, id, name, orig_loc,
                   windows_ticks, date_deleted, item_vec, full_paths_len,
                   path_idx, full_path, parsing_name, flags, targets, items>>
    /\ UNCHANGED threads

---------------------------------------------------------------------------
(* get_display_name(psf, pidl, flags), called twice for every item, with
   `(&recycle_bin).into()`, a new reference to the folder, as psf. *)

\* the parameter psf goes out of scope
drop_psf(l) == Release(l, "recycle_bin")

\* CoTaskMemFree(name.0 as *mut c_void)
free_name(l) == Release(l, "name")

get_display_name_GetDisplayNameOf ==
    /\ pc = "GetDisplayNameOf"
    /\ \E hr \in Statuses :
        /\ Called("GetDisplayNameOf", hr)
        /\ misuse' = (misuse \/ live["item"] < 1 \/ live["recycle_bin"] < 1)
        /\ LET l == Acquire(live, "recycle_bin") IN
           IF is_err(hr)
           THEN Return(Unknown("GetDisplayNameOf"), drop_loop_scope(drop_psf(l)))
           ELSE /\ live' = Acquire(l, "sr")
                /\ pc' = "StrRetToStrW"
                /\ UNCHANGED result
    /\ UNCHANGED <<op, co_initialized, trash, locals>>
    /\ UNCHANGED threads

\* the string StrRetToStrW allocates for the current item and flags
DisplayNameOf(i, form) ==
    Wstr(IF form = "SHGDN_FORPARSING" THEN ParsingName(i) ELSE DisplayName(trash[i]))

\* StrRetToStrW frees the string of the STRRET whatever it returns
get_display_name_StrRetToStrW ==
    /\ pc = "StrRetToStrW"
    /\ \E hr \in Statuses :
        /\ Called("StrRetToStrW", hr)
        /\ misuse' = (misuse \/ live["item"] < 1 \/ live["sr"] < 1)
        /\ IF is_err(hr)
           THEN /\ Return(Unknown("StrRetToStrW"),
                          drop_loop_scope(drop_psf(Release(live, "sr"))))
                /\ UNCHANGED <<shgdn, id, name>>
           ELSE /\ LET os == wstr_to_os_string(DisplayNameOf(item, shgdn)) IN
                   IF shgdn = "SHGDN_FORPARSING"
                   THEN /\ id' = os
                        /\ shgdn' = "SHGDN_INFOLDER"
                        /\ pc' = "GetDisplayNameOf"
                        /\ UNCHANGED name
                   ELSE /\ name' = os
                        /\ shgdn' = "none"
                        /\ pc' = "get_detail.GetDetailsEx"
                        /\ UNCHANGED id
                /\ live' = drop_psf(free_name(Acquire(Release(live, "sr"), "name")))
                /\ UNCHANGED result
    /\ UNCHANGED <<op, co_initialized, trash, cursor, item, cb, orig_loc,
                   windows_ticks, date_deleted, item_vec, full_paths_len,
                   path_idx, full_path, parsing_name, flags, targets, items>>
    /\ UNCHANGED threads

---------------------------------------------------------------------------
(* get_detail(&recycle_bin, item, &SCID_ORIGINAL_LOCATION) *)

\* the scopeguard of get_detail: VariantClear(&mut vt) when vt is dropped
get_detail_guard(l) == Release(l, "vt")

get_detail_GetDetailsEx ==
    /\ pc = "get_detail.GetDetailsEx"
    /\ \E hr \in Statuses :
        /\ Called("GetDetailsEx", hr)
        /\ misuse' = (misuse \/ live["item"] < 1)
        /\ IF is_err(hr)
           THEN Return(Unknown("GetDetailsEx"), drop_loop_scope(live))
           ELSE /\ live' = Acquire(live, "vt")
                /\ pc' = "get_detail.VariantChangeType"
                /\ UNCHANGED result
    /\ UNCHANGED <<op, co_initialized, trash, locals>>
    /\ UNCHANGED threads

get_detail_VariantChangeType ==
    /\ pc = "get_detail.VariantChangeType"
    /\ \E hr \in Statuses :
        /\ Called("VariantChangeType", hr)
        /\ misuse' = (misuse \/ live["vt"] < 1)
        /\ IF is_err(hr)
           THEN /\ Return(Unknown("VariantChangeType"),
                          drop_loop_scope(get_detail_guard(live)))
                /\ UNCHANGED orig_loc
           ELSE /\ orig_loc' = wstr_to_os_string(Wstr(OriginalLocation(trash[item])))
                /\ live' = get_detail_guard(live)
                /\ pc' = "get_date_unix.GetDetailsEx"
                /\ UNCHANGED result
    /\ UNCHANGED <<op, co_initialized, trash, cursor, item, cb, shgdn, id, name,
                   windows_ticks, date_deleted, item_vec, full_paths_len,
                   path_idx, full_path, parsing_name, flags, targets, items>>
    /\ UNCHANGED threads

---------------------------------------------------------------------------
(* get_date_unix(&recycle_bin, item, &SCID_DATE_DELETED) and
   variant_time_to_unix_time *)

\* vt is a plain local: nothing clears it
get_date_unix_guard_missing(l) == l

\* the scopeguard of get_date_unix: VariantClear(&mut vt) when vt is dropped
get_date_unix_guard(l) == Release(l, "vt")

get_date_unix_GetDetailsEx ==
    /\ pc = "get_date_unix.GetDetailsEx"
    /\ \E hr \in Statuses :
        /\ Called("GetDetailsEx", hr)
        /\ misuse' = (misuse \/ live["item"] < 1)
        /\ IF is_err(hr)
           THEN Return(Unknown("GetDetailsEx"), drop_loop_scope(live))
           ELSE /\ live' = Acquire(live, "vt")
                /\ pc' = "get_date_unix.VariantChangeType"
                /\ UNCHANGED result
    /\ UNCHANGED <<op, co_initialized, trash, locals>>
    /\ UNCHANGED threads

get_date_unix_VariantChangeType ==
    /\ pc = "get_date_unix.VariantChangeType"
    /\ \E hr \in Statuses :
        /\ Called("VariantChangeType", hr)
        /\ misuse' = (misuse \/ live["vt"] < 1)
        /\ IF is_err(hr)
           THEN Return(Unknown("VariantChangeType"),
                       drop_loop_scope(get_date_unix_guard(live)))
           ELSE /\ pc' = "VariantTimeToSystemTime"
                /\ UNCHANGED <<result, live>>
    /\ UNCHANGED <<op, co_initialized, trash, locals>>
    /\ UNCHANGED threads

\* VariantTimeToSystemTime returns 0 when it fails
variant_time_to_unix_time_VariantTimeToSystemTime ==
    /\ pc = "VariantTimeToSystemTime"
    /\ \E ret \in {0, 1} :
        /\ Called("VariantTimeToSystemTime", ret)
        /\ IF ret = 0
           THEN Return(Unknown("VariantTimeToSystemTime"),
                       drop_loop_scope(get_date_unix_guard(live)))
           ELSE /\ pc' = "SystemTimeToFileTime"
                /\ UNCHANGED <<result, live>>
    /\ UNCHANGED <<op, co_initialized, misuse, trash, locals>>
    /\ UNCHANGED threads

\* SystemTimeToFileTime returns FALSE when it fails; `large_int.whole` is
\* dwHighDateTime * 2^32 + dwLowDateTime, the tick count of the FILETIME
variant_time_to_unix_time_SystemTimeToFileTime ==
    /\ pc = "SystemTimeToFileTime"
    /\ \E ret \in {0, 1} :
        /\ Called("SystemTimeToFileTime", ret)
        /\ IF ret = 0
           THEN /\ Return(Unknown("SystemTimeToFileTime"),
                          drop_loop_scope(get_date_unix_guard(live)))
                /\ UNCHANGED <<windows_ticks, date_deleted>>
           ELSE /\ windows_ticks' = FileTime(trash[item])
                /\ date_deleted' = windows_ticks_to_unix_seconds(windows_ticks')
                /\ live' = get_date_unix_guard(live)
                /\ pc' = "push"
                /\ UNCHANGED result
    /\ UNCHANGED <<op, co_initialized, misuse, trash, cursor, item, cb, shgdn,
                   id, name, orig_loc, item_vec, full_paths_len, path_idx,
                   full_path, parsing_name, flags, targets, items>>
    /\ UNCHANGED threads

---------------------------------------------------------------------------
(* list, lines 183-189: the TrashItem is built and pushed, the item freed *)

\* a TrashItem whose id and name changed places
TrashItem_swapped(i, n, o, t) ==
    [id |-> n, name |-> i, original_parent |-> o, time_deleted |-> t]

\* PathBuf::from(orig_loc) keeps the OsString
TrashItem(i, n, o, t) ==
    [id |-> i, name |-> n, original_parent |-> o, time_deleted |-> t]

list_push ==
    /\ pc = "push"
    /\ LET s == into_string(name) IN
       IF ~s.ok
       THEN /\ Return(ConvertOsString(name), drop_loop_scope(live))
            /\ UNCHANGED <<item, id, name, orig_loc, windows_ticks,
                           date_deleted, item_vec>>
       ELSE /\ item_vec' = Append(item_vec,
                                  TrashItem(id, s.chars, orig_loc, date_deleted))
            /\ live' = list_item_defer(live)
            /\ item' = 0
            /\ id' = <<>>
            /\ name' = <<>>
            /\ orig_loc' = <<>>
            /\ windows_ticks' = ZeroMag
            /\ date_deleted' = NoTime
            /\ pc' = "Next"
            /\ UNCHANGED result
    /\ UNCHANGED <<op, co_initialized, log, misuse, trash, cursor, cb, shgdn,
                   full_paths_len, path_idx, full_path, parsing_name, flags,
                   targets, items>>
    /\ UNCHANGED threads

---------------------------------------------------------------------------
(* delete_all_canonicalized *)

FOF_SILENT == 4
FOF_RENAMEONCOLLISION == 8
FOF_NOCONFIRMATION == 16
FOF_WANTMAPPINGHANDLE == 32
FOF_ALLOWUNDO == 64
FOF_FILESONLY == 128
FOF_SIMPLEPROGRESS == 256
FOF_NOCONFIRMMKDIR == 512
FOF_NOERRORUI == 1024
FOF_NOCOPYSECURITYATTRIBS == 2048
FOF_NORECURSION == 4096
FOF_NO_CONNECTED_ELEMENTS == 8192
FOF_WANTNUKEWARNING == 16384

\* a | b on u32
RECURSIVE BitOr(_, _)
BitOr(a, b) ==
    IF a = 0 THEN b
    ELSE IF b = 0 THEN a
    ELSE 2 * BitOr(a \div 2, b \div 2) + (IF a % 2 = 1 \/ b % 2 = 1 THEN 1 ELSE 0)

FOF_NO_UI ==
    BitOr(BitOr(FOF_SILENT, FOF_NOCONFIRMATION),
          BitOr(FOF_NOERRORUI, FOF_NOCONFIRMMKDIR))

\* the flags with rename-on-collision added
operation_flags_renaming ==
    BitOr(BitOr(FOF_NO_UI, FOF_ALLOWUNDO),
          BitOr(FOF_WANTNUKEWARNING, FOF_RENAMEONCOLLISION))

\* the argument of SetOperationFlags
operation_flags == BitOr(BitOr(FOF_NO_UI, FOF_ALLOWUNDO), FOF_WANTNUKEWARNING)

\* the characters paths are made of, and their UTF-16 code units
PathChars == {"\\", "?", "a"}
CodeUnit(c) ==
    CASE c = "\\" -> Backslash
      [] c = "?" -> QuestionMark
      [] OTHER -> LetterA

\* the paths a caller passes: every string of at most MaxPathLen characters
Paths == UNION {[1..n -> PathChars] : n \in 0..MaxPathLen}

\* full_path.as_os_str().encode_wide()
encode_wide(path) == [i \in 1..Len(path) |-> CodeUnit(path[i])]

\* ['\\' as u16, '\\' as u16, '?' as u16, '\\' as u16]
path_prefix == <<Backslash, Backslash, QuestionMark, Backslash>>

\* <[u16]>::starts_with
starts_with(s, prefix) ==
    Len(s) >= Len(prefix) /\ SubSeq(s, 1, Len(prefix)) = prefix

\* encode_wide().chain(std::iter::once(0)).collect()
wide_path_container(path) == encode_wide(path) \o <<0>>

\* the prefix is left in place
wide_path_slice_unstripped(path) == wide_path_container(path)

\* lines 123-127: the slice whose pointer SHCreateItemFromParsingName gets
wide_path_slice(path) ==
    LET container == wide_path_container(path) IN
    IF starts_with(container, path_prefix)
    THEN SubSeq(container, Len(path_prefix) + 1, Len(container))
    ELSE SubSeq(container, 1, Len(container))

\* delete_all_canonicalized returns: `pfo` and `recycle_bin` are dropped
drop_delete_scope(l) == Release(Release(l, "pfo"), "recycle_bin")

\* a loop head that ends the call when there is no path
LoopHead_skips_empty(i) ==
    IF full_paths_len = 0 THEN "done"
    ELSE IF i < full_paths_len THEN "SHCreateItemFromParsingName"
    ELSE "PerformOperations"

\* the loop stops one path early
LoopHead_early(i) ==
    IF i + 1 < full_paths_len THEN "SHCreateItemFromParsingName" ELSE "PerformOperations"

\* where the `for` loop goes after i paths have been taken
LoopHead(i) ==
    IF i < full_paths_len THEN "SHCreateItemFromParsingName" ELSE "PerformOperations"

delete_CoCreateInstance ==
    /\ pc = "CoCreateInstance"
    /\ \E hr \in Statuses :
        /\ Called("CoCreateInstance", hr)
        /\ IF is_err(hr)
           THEN Return(Unknown("CoCreateInstance"), drop_recycle_bin(live))
           ELSE /\ live' = Acquire(live, "pfo")
                /\ pc' = "SetOperationFlags"
                /\ UNCHANGED result
    /\ UNCHANGED <<op, co_initialized, misuse, trash, locals>>
    /\ UNCHANGED threads

delete_SetOperationFlags ==
    /\ pc = "SetOperationFlags"
    /\ \E hr \in Statuses :
        /\ Called("SetOperationFlags", hr)
        /\ misuse' = (misuse \/ live["pfo"] < 1)
        /\ IF is_err(hr)
           THEN /\ Return(Unknown("SetOperationFlags"), drop_delete_scope(live))
                /\ UNCHANGED flags
           ELSE /\ flags' = operation_flags
                /\ pc' = LoopHead(0)
                /\ UNCHANGED <<result, live>>
    /\ UNCHANGED <<op, co_initialized, trash, cursor, item, cb, shgdn, id, name,
                   orig_loc, windows_ticks, date_deleted, item_vec,
                   full_paths_len, path_idx, full_path, parsing_name, targets,
                   items>>
    /\ UNCHANGED threads

\* the next path of full_paths is taken and resolved
delete_SHCreateItemFromParsingName ==
    /\ pc = "SHCreateItemFromParsingName"
    /\ \E path \in Paths, hr \in Statuses :
        /\ full_path' = path
        /\ path_idx' = path_idx + 1
        /\ parsing_name' = wide_path_slice(path)
        /\ Called("SHCreateItemFromParsingName", hr)
        /\ IF is_err(hr)
           THEN Return(Unknown("SHCreateItemFromParsingName"),
                       drop_delete_scope(live))
           ELSE /\ live' = Acquire(live, "shi")
                /\ pc' = "DeleteItem"
                /\ UNCHANGED result
    /\ UNCHANGED <<op, co_initialized, misuse, trash, cursor, item, cb, shgdn,
                   id, name, orig_loc, windows_ticks, date_deleted, item_vec,
                   full_paths_len, flags, targets, items>>
    /\ UNCHANGED threads

\* pfo.DeleteItem(shi, WinNull): shi is moved into the call and dropped
delete_DeleteItem ==
    /\ pc = "DeleteItem"
    /\ \E hr \in Statuses :
        /\ Called("DeleteItem", hr)
        /\ misuse' = (misuse \/ live["pfo"] < 1 \/ live["shi"] < 1)
        /\ LET l == Release(live, "shi") IN
           IF is_err(hr)
           THEN /\ Return(Unknown("DeleteItem"), drop_delete_scope(l))
                /\ UNCHANGED <<targets, full_path, parsing_name>>
           ELSE /\ targets' = targets + 1
                /\ live' = l
                /\ full_path' = <<>>
                /\ parsing_name' = <<>>
                /\ pc' = LoopHead(path_idx)
                /\ UNCHANGED result
    /\ UNCHANGED <<op, co_initialized, trash, cursor, item, cb, shgdn, id, name,
                   orig_loc, windows_ticks, date_deleted, item_vec,
                   full_paths_len, path_idx, flags, items>>
    /\ UNCHANGED threads

\* pfo.PerformOperations(): when it succeeds every target is in the bin
delete_PerformOperations ==
    /\ pc = "PerformOperations"
    /\ \E hr \in Statuses :
        /\ Called("PerformOperations", hr)
        /\ misuse' = (misuse \/ live["pfo"] < 1)
        /\ IF is_err(hr)
           THEN /\ Return(Unknown("PerformOperations"), drop_delete_scope(live))
                /\ UNCHANGED trash
           ELSE /\ Return(Ok, drop_delete_scope(live))
                /\ \E added \in [1..targets -> ItemKinds] : trash' = trash \o added
    /\ UNCHANGED <<op, co_initialized, locals>>
    /\ UNCHANGED threads

---------------------------------------------------------------------------
(* purge_all and restore_all: todo!() *)

\* an error value is returned instead
todo_as_error == Unknown("todo")

\* todo!() panics with "not yet implemented"
todo == Panic("todo")

purge_all ==
    /\ pc = "idle"
    /\ \E n \in 0..Len(trash) : items' = SubSeq(trash, 1, n)
    /\ op' = "purge_all"
    /\ pc' = "done"
    /\ result' = todo
    /\ UNCHANGED <<co_initialized, log, live, misuse, trash, cursor, item, cb,
                   shgdn, id, name, orig_loc, windows_ticks, date_deleted,
                   item_vec, full_paths_len, path_idx, full_path,
                   parsing_name, flags, targets>>
    /\ UNCHANGED threads

restore_all ==
    /\ pc = "idle"
    /\ \E n \in 0..Len(trash) : items' = SubSeq(trash, 1, n)
    /\ op' = "restore_all"
    /\ pc' = "done"
    /\ result' = todo
    /\ UNCHANGED <<co_initialized, log, live, misuse, trash, cursor, item, cb,
                   shgdn, id, name, orig_loc, windows_ticks, date_deleted,
                   item_vec, full_paths_len, path_idx, full_path,
                   parsing_name, flags, targets>>
    /\ UNCHANGED threads

---------------------------------------------------------------------------
(* The caller takes the result; the thread is free for its next call. *)

returned ==
    /\ pc = "done"
    /\ op # "windows_ticks_to_unix_seconds"
    /\ pc' = "idle"
    /\ op' = "none"
    /\ log' = <<>>
    /\ live' = NoneLive
    /\ misuse' = FALSE
    /\ result' = NoResult
    /\ cursor' = 0
    /\ item' = 0
    /\ cb' = 0
    /\ shgdn' = "none"
    /\ id' = <<>>
    /\ name' = <<>>
    /\ orig_loc' = <<>>
    /\ windows_ticks' = ZeroMag
    /\ date_deleted' = NoTime
    /\ item_vec' = <<>>
    /\ full_paths_len' = 0
    /\ path_idx' = 0
    /\ full_path' = <<>>
    /\ parsing_name' = <<>>
    /\ flags' = -1
    /\ targets' = 0
    /\ items' = <<>>
    /\ UNCHANGED <<co_initialized, trash>>
    /\ UNCHANGED threads

Next ==
    \/ call_list
    \/ call_delete_all_canonicalized
    \/ ensure_com_initialized
    \/ bind_SHGetSpecialFolderLocation
    \/ bind_SHGetDesktopFolder
    \/ bind_BindToObject
    \/ bind_cast
    \/ list_EnumObjects
    \/ list_Next
    \/ get_display_name_GetDisplayNameOf
    \/ get_display_name_StrRetToStrW
    \/ get_detail_GetDetailsEx
    \/ get_detail_VariantChangeType
    \/ get_date_unix_GetDetailsEx
    \/ get_date_unix_VariantChangeType
    \/ variant_time_to_unix_time_VariantTimeToSystemTime
    \/ variant_time_to_unix_time_SystemTimeToFileTime
    \/ list_push
    \/ delete_CoCreateInstance
    \/ delete_SetOperationFlags
    \/ delete_SHCreateItemFromParsingName
    \/ delete_DeleteItem
    \/ delete_PerformOperations
    \/ purge_all
    \/ restore_all
    \/ returned

Spec == Init /\ [][Next]_vars

---------------------------------------------------------------------------
(* windows_ticks_to_unix_seconds on its own: the tick count is any of the
   sample values, the function is applied once. *)

\* tick counts around which samples are taken
TickBases ==
    {ZeroMag, SubMag(EpochTicks, FromNat(3 * WINDOWS_TICK)), EpochTicks,
     SubMag(Two63, FromNat(2 * WINDOWS_TICK)), Two63,
     SubMag(U64Max, FromNat(200 * WINDOWS_TICK))}

\* distances from a base value
TickSteps == {1, WINDOWS_TICK - 1, WINDOWS_TICK}

TickInputs ==
    {AddMag(b, FromNat(k * s)) : b \in TickBases, k \in 0..TickSpread, s \in TickSteps}
    \cup {U64Max}

InitTicks ==
    /\ pc = "call"
    /\ op = "windows_ticks_to_unix_seconds"
    /\ co_initialized = FALSE
    /\ trash = <<>>
    /\ log = <<>>
    /\ live = NoneLive
    /\ misuse = FALSE
    /\ result = NoResult
    /\ cursor = 0
    /\ item = 0
    /\ cb = 0
    /\ shgdn = "none"
    /\ id = <<>>
    /\ name = <<>>
    /\ orig_loc = <<>>
    /\ windows_ticks \in TickInputs
    /\ date_deleted = NoTime
    /\ item_vec = <<>>
    /\ full_paths_len = 0
    /\ path_idx = 0
    /\ full_path = <<>>
    /\ parsing_name = <<>>
    /\ flags = -1
    /\ targets = 0
    /\ items = <<>>
    /\ ThreadsInit

apply_windows_ticks_to_unix_seconds ==
    /\ pc = "call"
    /\ op = "windows_ticks_to_unix_seconds"
    /\ date_deleted' = windows_ticks_to_unix_seconds(windows_ticks)
    /\ pc' = "done"
    /\ UNCHANGED <<op, co_initialized, log, live, misuse, result, trash, cursor,
                   item, cb, shgdn, id, name, orig_loc, windows_ticks,
                   item_vec, full_paths_len, path_idx, full_path,
                   parsing_name, flags, targets, items>>
    /\ UNCHANGED threads

NextTicks == apply_windows_ticks_to_unix_seconds

SpecTicks == InitTicks /\ [][NextTicks]_vars

---------------------------------------------------------------------------
(* Threads.  CO_INITIALIZER is a thread_local!: every thread has its own,
   made by CoInitializer::new on the thread's first CO_INITIALIZER.with
   and dropped when the thread exits.  An initializer that panics leaves
   the thread-local unmade, and the next `with` on the thread runs it
   again.  Threads interleave at the platform calls. *)

InitThreads ==
    /\ pc = "idle"
    /\ op = "none"
    /\ co_initialized = FALSE
    /\ trash = <<>>
    /\ Locals
    /\ ThreadsInit

\* the state of the one call the other specifications follow
sequential == <<pc, op, co_initialized, log, live, misuse, result, trash,
                locals>>

\* COM is initialized on thread t: its CoInitializeEx succeeded and its
\* CoUninitialize has not been called
ComInitialized(t) ==
    Cardinality({i \in 1..Len(com_calls[t]) :
                    com_calls[t][i] = [f |-> "CoInitializeEx", hr |-> S_OK]})
      > Cardinality({i \in 1..Len(com_calls[t]) :
                    com_calls[t][i].f = "CoUninitialize"})

\* list / delete_all_canonicalized is called on thread t
thread_call(t) ==
    /\ thread_pc[t].at = "idle"
    /\ thread_calls[t] < MaxCalls
    /\ \E f \in {"list", "delete_all_canonicalized"} :
         thread_pc' = [thread_pc EXCEPT
                         ![t] = [op |-> f, at |-> "ensure_com_initialized"]]
    /\ thread_calls' = [thread_calls EXCEPT ![t] = @ + 1]
    /\ UNCHANGED <<CO_INITIALIZER, com_calls, uninitialized_call>>
    /\ UNCHANGED sequential

\* a process-wide initializer in place of the thread-local
co_initializer_process_wide(t) == \E u \in Threads : CO_INITIALIZER[u]

\* CO_INITIALIZER.with on thread t finds the thread's value made
co_initializer_made(t) == CO_INITIALIZER[t]

thread_ensure_com_initialized(t) ==
    /\ thread_pc[t].at = "ensure_com_initialized"
    /\ IF co_initializer_made(t)
       THEN /\ thread_pc' = [thread_pc EXCEPT ![t].at = "platform"]
            /\ UNCHANGED <<CO_INITIALIZER, com_calls>>
       ELSE \E hr \in Statuses :
            /\ com_calls' = [com_calls EXCEPT
                    ![t] = Append(@, [f |-> "CoInitializeEx", hr |-> hr])]
            /\ IF is_err(hr)
               THEN /\ thread_pc' = [thread_pc EXCEPT ![t].at = "panicked"]
                    /\ UNCHANGED CO_INITIALIZER
               ELSE /\ thread_pc' = [thread_pc EXCEPT ![t].at = "platform"]
                    /\ CO_INITIALIZER' = [CO_INITIALIZER EXCEPT ![t] = TRUE]
    /\ UNCHANGED <<thread_calls, uninitialized_call>>
    /\ UNCHANGED sequential

\* the platform calls of the body of the call, issued on thread t
thread_platform_calls(t) ==
    /\ thread_pc[t].at = "platform"
    /\ uninitialized_call' = [uninitialized_call EXCEPT
                                ![t] = @ \/ ~ComInitialized(t)]
    /\ thread_pc' = [thread_pc EXCEPT ![t].at = "done"]
    /\ UNCHANGED <<CO_INITIALIZER, com_calls, thread_calls>>
    /\ UNCHANGED sequential

\* the call returns, or its panic is caught on the thread
thread_returned(t) ==
    /\ thread_pc[t].at \in {"done", "panicked"}
    /\ thread_pc' = [thread_pc EXCEPT ![t] = [op |-> "none", at |-> "idle"]]
    /\ UNCHANGED <<CO_INITIALIZER, com_calls, thread_calls,
                   uninitialized_call>>
    /\ UNCHANGED sequential

\* thread t ends: its thread-local, if made, is dropped
thread_exit(t) ==
    /\ thread_pc[t].at \in {"idle", "panicked"}
    /\ thread_pc' = [thread_pc EXCEPT ![t] = [op |-> "none", at |-> "exited"]]
    /\ IF CO_INITIALIZER[t]
       THEN /\ com_calls' = [com_calls EXCEPT
                    ![t] = Append(@, [f |-> "CoUninitialize", hr |-> S_OK])]
            /\ CO_INITIALIZER' = [CO_INITIALIZER EXCEPT ![t] = FALSE]
       ELSE UNCHANGED <<CO_INITIALIZER, com_calls>>
    /\ UNCHANGED <<thread_calls, uninitialized_call>>
    /\ UNCHANGED sequential

ThreadStep(t) ==
    \/ thread_call(t)
    \/ thread_ensure_com_initialized(t)
    \/ thread_platform_calls(t)
    \/ thread_returned(t)
    \/ thread_exit(t)

NextThreads == \E t \in Threads : ThreadStep(t)

SpecThreads == InitThreads /\ [][NextThreads]_vars

---------------------------------------------------------------------------
(* list() alone, with progress.  list() runs on the thread that called
   it and blocks on nothing but the platform calls, each of which returns:
   a call that has started takes its next step. *)

ListStep ==
    \/ ensure_com_initialized
    \/ bind_SHGetSpecialFolderLocation
    \/ bind_SHGetDesktopFolder
    \/ bind_BindToObject
    \/ bind_cast
    \/ list_EnumObjects
    \/ list_Next
    \/ get_display_name_GetDisplayNameOf
    \/ get_display_name_StrRetToStrW
    \/ get_detail_GetDetailsEx
    \/ get_detail_VariantChangeType
    \/ get_date_unix_GetDetailsEx
    \/ get_date_unix_VariantChangeType
    \/ variant_time_to_unix_time_VariantTimeToSystemTime
    \/ variant_time_to_unix_time_SystemTimeToFileTime
    \/ list_push

NextList ==
    \/ call_list
    \/ ListStep
    \/ returned

SpecList == Init /\ [][NextList]_vars /\ WF_vars(ListStep)

---------------------------------------------------------------------------
(* Properties. *)

\* the positions of the calls of f in the log
Calls(f) == {i \in 1..Len(log) : log[i].f = f}

\* how many calls of f before position i succeeded
OkBefore(f, i) == Cardinality({j \in 1..(i - 1) : log[j].f = f /\ ~is_err(log[j].hr)})

\* the calls that report failure by a zero return value
ZeroFails == {"VariantTimeToSystemTime", "SystemTimeToFileTime"}

\* the logged call e failed
Failed(e) == IF e.f \in ZeroFails THEN e.hr = 0 ELSE is_err(e.hr)

\* C1: in a call of delete_all_canonicalized PerformOperations is called at
\* most once, and only after every path of full_paths has been resolved by
\* SHCreateItemFromParsingName and added by DeleteItem; when a resolution or
\* an addition fails, PerformOperations is not called and the call returns
\* an error.
C1_ExecutedOnceAfterAllAdded ==
    op = "delete_all_canonicalized" =>
        /\ Cardinality(Calls("PerformOperations")) <= 1
        /\ \A i \in Calls("PerformOperations") :
            /\ OkBefore("SHCreateItemFromParsingName", i) = full_paths_len
            /\ OkBefore("DeleteItem", i) = full_paths_len
            /\ targets = full_paths_len
        /\ (\E j \in Calls("SHCreateItemFromParsingName") \cup Calls("DeleteItem") :
                is_err(log[j].hr))
           => /\ Calls("PerformOperations") = {}
              /\ pc = "done"
              /\ result.kind = "Err"

C1_Witness ==
    /\ op = "delete_all_canonicalized"
    /\ pc = "done"
    /\ full_paths_len = 2
    /\ targets = 2
    /\ Calls("PerformOperations") # {}
    /\ result.kind = "Ok"

\* C2: list() is all-or-nothing: when it returns Ok, item_vec holds a
\* TrashItem for every item of the recycle bin, and when a step that
\* extracts the id, the name, the original location or the date of an item
\* fails it returns an error.
C2_ListAllOrNothing ==
    (op = "list" /\ pc = "done") =>
        /\ result.kind = "Ok" => Len(item_vec) = Len(trash)
        /\ (\E i \in 1..Len(log) :
                /\ log[i].f \in {"GetDisplayNameOf", "StrRetToStrW", "GetDetailsEx",
                                 "VariantChangeType"} \cup ZeroFails
                /\ Failed(log[i]))
           => result.kind = "Err"

\* C3: every failure status of a platform call made by list() or
\* delete_all_canonicalized after the thread's initialization (Next
\* included) makes the call return an error.
C3_EveryFailureIsAnError ==
    (op \in {"list", "delete_all_canonicalized"} /\ pc = "done") =>
        \A i \in 1..Len(log) :
            (log[i].f # "CoInitializeEx" /\ Failed(log[i])) => result.kind = "Err"

\* C4: when EnumObjects returns another status than S_OK, a secondary
\* success code included, list() returns an error, has not called Next and
\* returns no item.
C4_EnumObjectsOnlyS_OK ==
    op = "list" =>
        \A i \in Calls("EnumObjects") :
            log[i].hr # S_OK =>
                /\ pc = "done"
                /\ result.kind = "Err"
                /\ Calls("Next") = {}
                /\ item_vec = <<>>

C4_Witness ==
    /\ op = "list"
    /\ pc = "done"
    /\ \E i \in Calls("EnumObjects") : log[i].hr = S_FALSE

\* where list() is inside the body of its loop
LoopBody ==
    {"GetDisplayNameOf", "StrRetToStrW", "get_detail.GetDetailsEx",
     "get_detail.VariantChangeType", "get_date_unix.GetDetailsEx",
     "get_date_unix.VariantChangeType", "VariantTimeToSystemTime",
     "SystemTimeToFileTime", "push"}

\* C5: every item Next yields is freed exactly once, at the end of its
\* iteration or when list() returns early from the loop body: an item is
\* held exactly while the loop body runs, none is left when list() has
\* returned, and none is freed twice or used after it was freed.
C5_ItemFreedOnce ==
    op = "list" =>
        /\ live["item"] \in {0, 1}
        /\ live["item"] = 1 <=> pc \in LoopBody
        /\ ~misuse
        /\ Cardinality({i \in Calls("Next") : log[i].hr = S_OK}) = cursor

C5_Witness ==
    /\ op = "list"
    /\ pc = "done"
    /\ cursor = 2
    /\ result.kind = "Err"
    /\ result.at = "GetDetailsEx"
    /\ live["item"] = 0

\* where a VARIANT that GetDetailsEx filled is in scope
VariantInScope ==
    {"get_detail.VariantChangeType", "get_date_unix.VariantChangeType",
     "VariantTimeToSystemTime", "SystemTimeToFileTime"}

\* C6: in get_detail and get_date_unix the VARIANT is cleared exactly once
\* if and only if GetDetailsEx succeeded: one value is outstanding exactly
\* between the retrieval and the exit of the function, by whichever path
\* (coercion failed, time conversion failed, success), and none otherwise.
C6_VariantClearedOnce ==
    op = "list" =>
        /\ live["vt"] \in {0, 1}
        /\ live["vt"] = 1 <=> pc \in VariantInScope

C6_Witness ==
    /\ op = "list"
    /\ pc = "done"
    /\ result.at = "VariantTimeToSystemTime"
    /\ live["vt"] = 0

\* C7: when list() has returned, by any path, every platform resource it
\* acquired has been released exactly once: none is outstanding, and at no
\* point was one released that was not held.
C7_ListReleasesEverything ==
    op = "list" =>
        /\ \A k \in Kinds : live[k] >= 0
        /\ ~misuse
        /\ pc = "done" => live = NoneLive

C7_Witness ==
    /\ op = "list"
    /\ pc = "done"
    /\ cursor = 1
    /\ result = ConvertOsString(DisplayName(2))
    /\ live = NoneLive

\* C8: windows_ticks_to_unix_seconds(t) = floor(t / 10000000) - 11644473600
\* for every u64 t, that is, with q the result plus 11644473600:
\* 0 <= q and q * 10000000 <= t < (q + 1) * 10000000; and the result for
\* 116444736000000000 is 0.
C8_TicksToUnixSeconds ==
    (op = "windows_ticks_to_unix_seconds" /\ pc = "done") =>
        LET q == SAdd(date_deleted, Pos(<<0, 0, 0, 0, 1, 16, 44, 47, 36, 0>>))
            low == MulMag(q.mag, 10000000)
        IN  /\ ~q.neg
            /\ CmpMag(low, windows_ticks) <= 0
            /\ CmpMag(SubMag(windows_ticks, low), FromNat(10000000)) < 0
            /\ windows_ticks = <<0, 11, 64, 44, 73, 60, 0, 0, 0, 0>>
               => date_deleted = Pos(ZeroMag)

C8_Witness ==
    /\ op = "windows_ticks_to_unix_seconds"
    /\ pc = "done"
    /\ windows_ticks = EpochTicks
    /\ date_deleted = Pos(ZeroMag)

\* SHCreateItemFromParsingName has just been called with parsing_name
Resolving ==
    /\ op = "delete_all_canonicalized"
    /\ log # <<>>
    /\ log[Len(log)].f = "SHCreateItemFromParsingName"

\* C9: the string handed to SHCreateItemFromParsingName is the code units
\* of the path without its first four when these are \ \ ? \, all the code
\* units of the path otherwise, followed in both cases by one zero.
C9_PrefixStripped ==
    Resolving =>
        LET w == encode_wide(full_path)
            prefixed == /\ Len(w) >= 4
                        /\ w[1] = 92 /\ w[2] = 92 /\ w[3] = 63 /\ w[4] = 92
            rest == IF prefixed THEN [i \in 1..(Len(w) - 4) |-> w[i + 4]] ELSE w
        IN  /\ Len(parsing_name) = Len(rest) + 1
            /\ \A i \in 1..Len(rest) : parsing_name[i] = rest[i] /\ rest[i] # 0
            /\ parsing_name[Len(parsing_name)] = 0

C9_Witness ==
    /\ Resolving
    /\ full_path = <<"\\", "\\", "?", "\\", "a">>
    /\ parsing_name = <<97, 0>>

---------------------------------------------------------------------------
(* C11: on every thread CoInitializeEx succeeds at most once; no
   CoInitializeEx is issued on a thread before its first call of list or
   delete_all_canonicalized, and that first call issues it before anything
   else; the platform calls of a call are only issued on a thread whose
   own CoInitializeEx succeeded, whatever the other threads have done. *)

InitSuccesses(t) ==
    {i \in 1..Len(com_calls[t]) :
        com_calls[t][i] = [f |-> "CoInitializeEx", hr |-> S_OK]}

C11_InitPerThread ==
    \A t \in Threads :
      /\ Cardinality(InitSuccesses(t)) <= 1
      /\ thread_calls[t] = 0 => com_calls[t] = <<>>
      /\ (thread_calls[t] >= 1 /\ thread_pc[t].at # "ensure_com_initialized")
            => /\ com_calls[t] # <<>>
               /\ com_calls[t][1].f = "CoInitializeEx"
      /\ thread_pc[t].at \in {"platform", "done"}
            => CO_INITIALIZER[t] /\ ComInitialized(t)
      /\ ~uninitialized_call[t]
      /\ CO_INITIALIZER[t] <=> ComInitialized(t)

\* two threads are in their calls at once, each initialized by itself,
\* one of them on its second call
C11_Witness ==
    \E t, u \in Threads :
      /\ t # u
      /\ thread_pc[t].at = "done" /\ thread_pc[u].at = "platform"
      /\ thread_calls[t] = 2
      /\ Cardinality(InitSuccesses(t)) = 1
      /\ Cardinality(InitSuccesses(u)) = 1

\* no call of the running operation has failed
NoFailure == \A i \in 1..Len(log) : ~Failed(log[i])

\* every step of list() so far succeeded: no call failed, EnumObjects
\* returned S_OK and every call that succeeded delivered its output
EveryStepSucceeded ==
    /\ NoFailure
    /\ \A i \in Calls("EnumObjects") : log[i].hr = S_OK
    /\ result.at \notin {"SHGetDesktopFolder set its output to None",
                         "EnumObjects set its output to None"}

\* the TrashItem of the i-th item of the recycle bin, of kind k: "$R<i>",
\* "doc" or U+1F600, "C:\a" or "C:\aaa", 1 or 1833029933770
ExpectedItem(i, k) ==
    [id |-> <<36, 82, 48 + i>>,
     name |-> IF k = 1 THEN <<100, 111, 99>> ELSE <<128512>>,
     original_parent |-> IF k = 1 THEN <<67, 58, 92, 97>>
                                  ELSE <<67, 58, 92, 97, 97, 97>>,
     time_deleted |-> IF k = 1
                      THEN [neg |-> FALSE, mag |-> <<0, 0, 0, 0, 0, 0, 0, 0, 0, 1>>]
                      ELSE [neg |-> FALSE,
                            mag |-> <<0, 0, 0, 1, 83, 30, 29, 93, 37, 70>>]]

\* C12: while list() runs with every step succeeding, item_vec holds the
\* TrashItem of each item yielded so far, in the order of enumeration: the
\* id from the parse-form display name, the name from the folder-relative
\* display name, original_parent from the original-location detail and
\* time_deleted from the date-deleted detail in Unix seconds; when it has
\* returned, the result is Ok and item_vec has one TrashItem per item of
\* the recycle bin.
C12_OneItemPerYield ==
    (op = "list" /\ EveryStepSucceeded /\ \A i \in 1..Len(trash) : trash[i] # 2) =>
        /\ Len(item_vec) <= Len(trash)
        /\ \A i \in 1..Len(item_vec) : item_vec[i] = ExpectedItem(i, trash[i])
        /\ Len(item_vec) = IF pc \in LoopBody THEN cursor - 1 ELSE cursor
        /\ pc = "done" => result = Ok /\ Len(item_vec) = Len(trash)

C12_Witness ==
    /\ op = "list"
    /\ pc = "done"
    /\ EveryStepSucceeded
    /\ trash = <<3, 1>>
    /\ result = Ok
    /\ Len(item_vec) = 2
    /\ item_vec[1].name = <<128512>>
    /\ item_vec[2].name = <<100, 111, 99>>

\* the bit f is set in the flags v
HasFlag(v, f) == (v \div f) % 2 = 1

\* C13: a call of delete_all_canonicalized calls SetOperationFlags at most
\* once; every DeleteItem and PerformOperations comes after the one
\* SetOperationFlags that succeeded, and from then on the flags of the
\* operation are 0x4654: silent, no-confirmation, no-error-UI,
\* no-mkdir-confirmation, allow-undo and warn-on-permanent-delete, and no
\* other bit.
C13_FlagsSetOnce ==
    op = "delete_all_canonicalized" =>
        /\ Cardinality(Calls("SetOperationFlags")) <= 1
        /\ \A i \in Calls("DeleteItem") \cup Calls("PerformOperations")
                    \cup Calls("SHCreateItemFromParsingName") :
              OkBefore("SetOperationFlags", i) = 1
        /\ (\E i \in Calls("SetOperationFlags") : ~is_err(log[i].hr))
              <=> flags # -1
        /\ flags # -1 =>
              /\ flags = 18004
              /\ \A f \in {FOF_SILENT, FOF_NOCONFIRMATION, FOF_NOERRORUI,
                           FOF_NOCONFIRMMKDIR, FOF_ALLOWUNDO,
                           FOF_WANTNUKEWARNING} : HasFlag(flags, f)
              /\ \A f \in {1, 2, FOF_RENAMEONCOLLISION, FOF_WANTMAPPINGHANDLE,
                           FOF_FILESONLY, FOF_SIMPLEPROGRESS,
                           FOF_NOCOPYSECURITYATTRIBS, FOF_NORECURSION,
                           FOF_NO_CONNECTED_ELEMENTS} : ~HasFlag(flags, f)
              /\ flags < 32768

C13_Witness ==
    /\ op = "delete_all_canonicalized"
    /\ pc = "done"
    /\ result = Ok
    /\ full_paths_len = 2
    /\ Cardinality(Calls("DeleteItem")) = 2
    /\ Cardinality(Calls("SetOperationFlags")) = 1
    /\ flags = 18004

\* the items of the recycle bin whose name is no valid UTF-16
InvalidNames == {i \in 1..Len(trash) : trash[i] = 2}

\* C14: when the folder-relative display name of an item cannot be
\* converted to a String, list() returns Error::ConvertOsString carrying
\* that name as the platform gave it: item_vec never holds an item at or
\* after the first such item, so the item is neither skipped nor included
\* under another name, and no list is returned.
C14_InvalidNameIsAnError ==
    (op = "list" /\ InvalidNames # {}) =>
        LET first == CHOOSE i \in InvalidNames : \A j \in InvalidNames : i <= j
        IN  /\ Len(item_vec) < first
            /\ \A i \in 1..Len(item_vec) :
                  item_vec[i].name \in {<<100, 111, 99>>, <<128512>>}
            /\ (pc = "done" /\ EveryStepSucceeded) =>
                  /\ result.kind = "Err"
                  /\ result.err = "ConvertOsString"
                  /\ result.original = <<55296>>
                  /\ cursor = first

C14_Witness ==
    /\ op = "list"
    /\ pc = "done"
    /\ EveryStepSucceeded
    /\ trash = <<1, 2>>
    /\ Len(item_vec) = 1
    /\ result.err = "ConvertOsString"
    /\ result.original = <<55296>>

\* C15: every failure during list() or delete_all_canonicalized, that of
\* CoInitializeEx included, makes the call return an error value: the
\* call ends neither by a panic nor with Ok.
C15_EveryFailureIsAReturnedError ==
    (op \in {"list", "delete_all_canonicalized"} /\ pc = "done") =>
        /\ result.kind # "Panic"
        /\ (\E i \in 1..Len(log) : Failed(log[i])) => result.kind = "Err"

\* SHGetSpecialFolderLocation has resolved the identifier in this call
Resolved ==
    \E i \in Calls("SHGetSpecialFolderLocation") : ~is_err(log[i].hr)

\* C16: in bind_to_csidl, when the identifier SHGetSpecialFolderLocation
\* resolved has an empty payload (cb = 0) BindToObject is never called and
\* the desktop folder itself, cast to the interface, is returned; otherwise
\* BindToObject is called exactly once, on the desktop folder with the
\* identifier, and no cast is made.  The identifier is held exactly from
\* its resolution to the exit of bind_to_csidl and is freed once on every
\* exit: desktop folder unavailable, binding failed, cast failed, success.
C16_BindOrRoot ==
    op \in {"list", "delete_all_canonicalized"} =>
        /\ live["pidl"] \in {0, 1}
        /\ live["pidl"] = 1 <=> pc \in {"SHGetDesktopFolder", "BindToObject", "cast"}
        /\ ~misuse
        /\ ~Resolved => Calls("BindToObject") \cup Calls("QueryInterface") = {}
        /\ (Resolved /\ cb = 0) =>
              /\ Calls("BindToObject") = {}
              /\ pc # "BindToObject"
              /\ Cardinality(Calls("QueryInterface")) <= 1
        /\ (Resolved /\ cb # 0) =>
              /\ Calls("QueryInterface") = {}
              /\ pc # "cast"
              /\ Cardinality(Calls("BindToObject")) <= 1
        /\ pc = AfterBind =>
              /\ Resolved
              /\ log[Len(log)] = [f |-> IF cb = 0 THEN "QueryInterface"
                                                   ELSE "BindToObject",
                                  hr |-> S_OK]
              /\ live["recycle_bin"] = 1
              /\ live["desktop"] = 0

\* the identifier had an empty payload and the cast of the desktop folder
\* failed: the identifier is freed
C16_Witness ==
    /\ op = "list"
    /\ pc = "done"
    /\ Resolved
    /\ cb = 0
    /\ result = Unknown("QueryInterface")
    /\ Calls("BindToObject") = {}
    /\ live["pidl"] = 0

\* C17: windows_ticks_to_unix_seconds wraps nowhere: with q the result plus
\* 11644473600, q is the quotient, 0 <= q < 2^63; the result is at least
\* -11644473600, negative exactly for the tick counts below
\* 116444736000000000, and no smaller than the result for any smaller tick
\* count.
C17_NoWrapMonotone ==
    (op = "windows_ticks_to_unix_seconds" /\ pc = "done") =>
        LET q == SAdd(date_deleted, Pos(<<0, 0, 0, 0, 1, 16, 44, 47, 36, 0>>))
            floor == [neg |-> TRUE, mag |-> <<0, 0, 0, 0, 1, 16, 44, 47, 36, 0>>]
        IN  /\ ~q.neg
            /\ CmpMag(q.mag, Two63) < 0
            /\ CmpMag(MulMag(q.mag, 10000000), windows_ticks) <= 0
            /\ ~SLess(date_deleted, floor)
            /\ date_deleted.neg
                 <=> CmpMag(windows_ticks,
                            <<0, 11, 64, 44, 73, 60, 0, 0, 0, 0>>) < 0
            /\ \A u \in TickInputs :
                 CmpMag(u, windows_ticks) <= 0
                   => ~SLess(date_deleted, windows_ticks_to_unix_seconds(u))

\* the largest tick count, above the range of i64
C17_Witness ==
    /\ op = "windows_ticks_to_unix_seconds"
    /\ pc = "done"
    /\ windows_ticks = U64Max
    /\ CmpMag(windows_ticks, Two63) > 0
    /\ date_deleted = [neg |-> FALSE,
                       mag |-> <<0, 0, 0, 1, 83, 30, 29, 93, 37, 70>>]

\* C18: list() on a recycle bin of n items, whose enumerator yields each
\* item once and then S_FALSE, returns: every call of list() reaches its
\* return; it calls Next at most n + 1 times, a status of Next other than
\* S_OK is the last call it makes, and the enumeration is never restarted:
\* EnumObjects is called at most once and the position in the enumeration
\* never goes back.
C18_ListReturns ==
    /\ [](op = "list" =>
            /\ Cardinality(Calls("Next")) <= Len(trash) + 1
            /\ Cardinality(Calls("EnumObjects")) <= 1
            /\ \A i \in Calls("Next") :
                  log[i].hr # S_OK => (i = Len(log) /\ pc = "done"))
    /\ [][(op = "list" /\ op' = "list") => cursor' >= cursor]_vars
    /\ (op = "list") ~> (pc = "done")

\* list() has returned after the two items and the end of the sequence
C18_Witness ==
    /\ op = "list"
    /\ pc = "done"
    /\ Len(trash) = 2
    /\ Cardinality(Calls("Next")) = 3
    /\ log[Len(log)] = [f |-> "Next", hr |-> S_FALSE]

\* the call f was made once and succeeded
CalledOnceOk(f) ==
    /\ Cardinality(Calls(f)) = 1
    /\ \A i \in Calls(f) : ~is_err(log[i].hr)

\* C19: delete_all_canonicalized with no path resolves and adds nothing,
\* and does not return Ok early: once the operation object is created and
\* its flags are set, PerformOperations is called exactly once, with no
\* target, and the call returns Ok exactly when PerformOperations
\* succeeded, its error otherwise.
C19_EmptyStillExecutes ==
    (op = "delete_all_canonicalized" /\ full_paths_len = 0) =>
        /\ Calls("SHCreateItemFromParsingName") \cup Calls("DeleteItem") = {}
        /\ targets = 0
        /\ Cardinality(Calls("PerformOperations")) <= 1
        /\ \A i \in Calls("PerformOperations") :
              /\ CalledOnceOk("CoCreateInstance")
              /\ CalledOnceOk("SetOperationFlags")
              /\ i = Len(log)
              /\ pc = "done"
              /\ result = IF is_err(log[i].hr) THEN Unknown("PerformOperations")
                                               ELSE Ok
        /\ (pc = "done" /\ CalledOnceOk("SetOperationFlags"))
              => Cardinality(Calls("PerformOperations")) = 1
        /\ (pc = "done" /\ result = Ok) => CalledOnceOk("PerformOperations")

\* the execution of the empty request failed, and so did the call
C19_Witness ==
    /\ op = "delete_all_canonicalized"
    /\ full_paths_len = 0
    /\ pc = "done"
    /\ CalledOnceOk("SetOperationFlags")
    /\ Cardinality(Calls("PerformOperations")) = 1
    /\ result = Unknown("PerformOperations")

=============================================================================
